---- MODULE Spec2Model ----
(***************************************************************************)
(* NAVIS core (navis_tdjango): the tables of models.py as the state, the   *)
(* add / change / delete views that admin.py registers for them as the     *)
(* actions.  Rows are kept as functions from the primary key (Django's     *)
(* implicit AutoField `id`, never reused) to a record of the columns the   *)
(* properties read; Formula and InfoValue are keyed by their concept, as    *)
(* their OneToOneField is the primary key.                                 *)
(***************************************************************************)
EXTENDS Integers, Sequences, FiniteSets, TLC

VARIABLES
    concepts,       \* navis_concept:        id -> [key, kind, root_lv2, is_active,
                    \*                              updated_at]
    relTypes,       \* navis_relation_type:  id -> [key, parent]
    edges,          \* navis_edge:           id -> [from_concept, relation_type, to_concept, weight,
                    \*                              updated_at]
    edgeAttrs,      \* navis_edge_attr:      id -> [edge, key, value_text]
    formulas,       \* navis_formula:        concept id -> [expression]
    infoValues,     \* navis_info_value:     concept id -> [value_num, value_text]
    calcModels,     \* calc_model:           id -> [model_key]
    calcBlocks,     \* calc_block:           id -> [block_key]
    assemblies,     \* calc_model_assembly:  id -> [model, block, order_no]
    blockFormulas,  \* calc_block_formula:   id -> [block, formula_concept]
    nextId,         \* the next primary key of every table with an AutoField
    clock,          \* what timezone.now() returns
    txn,            \* the requests in flight: transaction -> what its form has
                    \* validated and its view has not yet saved
    last            \* the response to the last request:
                    \* [op, id, result, cascaded, plan]

db == <<concepts, relTypes, edges, edgeAttrs, formulas, infoValues,
        calcModels, calcBlocks, assemblies, blockFormulas>>
vars == <<concepts, relTypes, edges, edgeAttrs, formulas, infoValues,
          calcModels, calcBlocks, assemblies, blockFormulas, nextId, clock,
          txn, last>>

(***************************************************************************)
(* Program constants                                                       *)
(***************************************************************************)
\* A NULL foreign key / NULL column (primary keys start at 1).
NULL == 0
\* Concept.Kind
Kinds == {"O", "P", "A", "I"}

\* RelationType.key of the type that wires a formula concept to its
\* variables: 'describes'
Describes == 1

\* The requests that can be in flight at the same time.
Txns == {"t1", "t2"}
\* no request of the transaction is in flight
NoRequest == [key |-> NULL, kind |-> "none", root_lv2 |-> NULL]

(***************************************************************************)
(* Bounds of the model                                                     *)
(***************************************************************************)
\* concept keys are drawn from 1..NKeys (compared as the strings' order)
NKeys == 3
\* number of concepts ever created in the concept-hierarchy specification
MaxConcepts == 3
\* number of concepts / edges ever created in the delete specification
MaxConceptsDel == 2
MaxEdgesDel == 2
\* number of relation types / edges ever created in the relation-type
\* specification
MaxRelTypes == 2
MaxEdgesRel == 2
\* number of assembly rows / block-formula rows ever created and the
\* largest order_no submitted in the calculation-assembly specification
MaxAssemblies == 2
MaxBlockFormulas == 3
MaxOrderNo == 2
\* number of edges / assembly rows / block-formula rows ever created and
\* the latest time in the structural-version specification
MaxEdgesVer == 2
MaxAssembliesVer == 2
MaxBlockFormulasVer == 2
MaxClock == 2
\* number of concepts ever stored in the row-timestamp specification
MaxConceptsBump == 3
\* number of assembly rows ever created in the assembly specification
MaxAssembliesUniq == 3
\* number of concepts ever created in the overlay specification
MaxConceptsOv == 2
\* number of concepts ever created in the concurrent-creation specification
MaxConceptsTx == 2
\* number of edges / edge attributes ever created in the edge-attribute
\* specification
MaxEdgesAttr == 2
MaxAttrs == 2
\* number of concepts / edges / block formulas ever created in the
\* failed-request specification
MaxConceptsFail == 2
MaxEdgesFail == 1
MaxBlockFormulasFail == 1
\* number of concepts ever created in the save-path specification
MaxConceptsSave == 3
\* number of concepts ever stored in the kind-copy race specification
MaxConceptsRace == 3
\* number of rows created on top of the stored ones in the
\* referential-integrity specification
MaxCreatesRef == 1

Keys == 1..NKeys

(***************************************************************************)
(* Helpers on rows                                                         *)
(***************************************************************************)
\* INSERT of row r under primary key id
Insert(table, id, r) ==
    [k \in DOMAIN table \cup {id} |-> IF k = id THEN r ELSE table[k]]

\* DELETE of the rows whose primary key is in ids
Remove(table, ids) ==
    [k \in DOMAIN table \ ids |-> table[k]]

Empty == [k \in {} |-> NULL]

\* The response the view gives: the request, the row it was about, the
\* outcome, the tables a delete removed dependent rows from (what
\* Model.delete() returns, by table) and the plan of resolve_model.
Resp(op, id, result) ==
    [op |-> op, id |-> id, result |-> result, cascaded |-> {}, plan |-> <<>>]

\* A request that is refused: nothing is written.
Refuse(op, id, result) ==
    /\ last' = Resp(op, id, result)
    /\ UNCHANGED <<clock, txn, db, nextId>>

\* Time passes between two requests: timezone.now() returns a later value.
Tick ==
    /\ clock' = clock + 1
    /\ UNCHANGED <<db, nextId, txn, last>>

(***************************************************************************)
(* Concept: ConceptLevel1Admin and ConceptLevel2Admin                      *)
(***************************************************************************)
\* unique=True on Concept.key, as the form's validate_unique checks it:
\* another row (not the one being edited) already carries the key.
ConceptKeyTaken(key, self) ==
    \E c \in DOMAIN concepts : c # self /\ concepts[c].key = key

\* ConceptLevel1Admin.get_queryset: the rows the level-1 screens reach.
Level1Queryset ==
    {c \in DOMAIN concepts : concepts[c].root_lv2 = NULL}

\* ConceptLevel2Admin.get_queryset: the rows the level-2 screens reach.
Level2Queryset ==
    {c \in DOMAIN concepts : concepts[c].root_lv2 # NULL}

AnyConceptChoices ==
    DOMAIN concepts

\* The choices of the root_lv2 field (formfield_for_foreignkey, and the
\* field's limit_choices_to): level-1 concepts only.
RootChoices ==
    {c \in DOMAIN concepts : concepts[c].root_lv2 = NULL}

SubmittedKind(p, kind) ==
    kind

\* ConceptLevel2Admin.save_model: obj.kind = obj.root_lv2.kind
InheritedKind(p, kind) ==
    concepts[p].kind

\* ConceptLevel1Admin add view: root_lv2 is no field of the form and
\* save_model forces it to NULL.
ConceptL1Add(key, kind) ==
    IF ConceptKeyTaken(key, NULL)
    THEN Refuse("ConceptL1Add", NULL, "DuplicateKey")
    ELSE /\ concepts' = Insert(concepts, nextId.concept,
                               [key |-> key, kind |-> kind, root_lv2 |-> NULL,
                                is_active |-> TRUE, updated_at |-> clock])
         /\ nextId' = [nextId EXCEPT !.concept = @ + 1]
         /\ last' = Resp("ConceptL1Add", nextId.concept, "ok")
         /\ UNCHANGED <<clock, txn, relTypes, edges, edgeAttrs, formulas, infoValues,
                        calcModels, calcBlocks, assemblies, blockFormulas>>

ConceptKeyIndexAbsent(key) ==
    FALSE

\* unique=True on Concept.key as the unique index of navis_concept enforces
\* it when a row is inserted.
ConceptKeyIndexConflict(key) ==
    \E c \in DOMAIN concepts : concepts[c].key = key

\* ConceptLevel1Admin add view of request t, first half: the form is
\* validated (validate_unique reads the table), nothing is written yet.
ConceptL1AddValidate(t, key, kind) ==
    /\ txn[t] = NoRequest
    /\ IF ConceptKeyTaken(key, NULL)
       THEN /\ last' = Resp("ConceptL1AddValidate", NULL, "DuplicateKey")
            /\ UNCHANGED <<clock, txn, db, nextId>>
       ELSE /\ txn' = [txn EXCEPT ![t] =
                            [key |-> key, kind |-> kind, root_lv2 |-> NULL]]
            /\ UNCHANGED <<clock, db, nextId, last>>

\* ConceptLevel1Admin add view of request t, second half: save_model
\* inserts the row; the unique index refuses the insert (IntegrityError)
\* when another request has stored the key in between.
ConceptL1AddSave(t) ==
    /\ txn[t] # NoRequest
    /\ txn[t].root_lv2 = NULL
    /\ txn' = [txn EXCEPT ![t] = NoRequest]
    /\ IF ConceptKeyIndexConflict(txn[t].key)
       THEN /\ last' = Resp("ConceptL1AddSave", NULL, "DuplicateKey")
            /\ UNCHANGED <<clock, db, nextId>>
       ELSE /\ concepts' = Insert(concepts, nextId.concept,
                                  [key |-> txn[t].key, kind |-> txn[t].kind,
                                   root_lv2 |-> NULL,
                                   is_active |-> TRUE, updated_at |-> clock])
            /\ nextId' = [nextId EXCEPT !.concept = @ + 1]
            /\ last' = Resp("ConceptL1AddSave", nextId.concept, "ok")
            /\ UNCHANGED <<clock, relTypes, edges, edgeAttrs, formulas, infoValues,
                           calcModels, calcBlocks, assemblies, blockFormulas>>

\* ConceptLevel1Admin change view of row c: key and kind are editable, the
\* children of c are not touched.
ConceptL1Change(c, key, kind) ==
    IF c \notin Level1Queryset
    THEN Refuse("ConceptL1Change", c, "NotFound")
    ELSE IF ConceptKeyTaken(key, c)
    THEN Refuse("ConceptL1Change", c, "DuplicateKey")
    ELSE /\ concepts' = [concepts EXCEPT ![c].key = key, ![c].kind = kind,
                                         ![c].root_lv2 = NULL]
         /\ last' = Resp("ConceptL1Change", c, "ok")
         /\ UNCHANGED <<clock, txn, relTypes, edges, edgeAttrs, formulas, infoValues,
                        calcModels, calcBlocks, assemblies, blockFormulas, nextId>>

\* BaseConceptAdmin.activate_concepts / deactivate_concepts on the selected
\* rows ids of one changelist: queryset.update(is_active=flag) writes that
\* one column and nothing else.
ConceptSetActive(ids, flag) ==
    /\ concepts' = [c \in DOMAIN concepts |->
                        IF c \in ids THEN [concepts[c] EXCEPT !.is_active = flag]
                        ELSE concepts[c]]
    /\ last' = Resp("ConceptSetActive", NULL, "ok")
    /\ UNCHANGED <<clock, txn, relTypes, edges, edgeAttrs, formulas, infoValues,
                   calcModels, calcBlocks, assemblies, blockFormulas, nextId>>

\* ConceptLevel2Admin add view: root_lv2 = p is required and must be one of
\* the field's choices; the submitted kind is overwritten by the parent's.
ConceptL2Add(key, kind, p) ==
    IF p \notin RootChoices
    THEN Refuse("ConceptL2Add", NULL, "HierarchyViolation")
    ELSE IF ConceptKeyTaken(key, NULL)
    THEN Refuse("ConceptL2Add", NULL, "DuplicateKey")
    ELSE /\ concepts' = Insert(concepts, nextId.concept,
                               [key |-> key, kind |-> InheritedKind(p, kind),
                                root_lv2 |-> p,
                                is_active |-> TRUE, updated_at |-> clock])
         /\ nextId' = [nextId EXCEPT !.concept = @ + 1]
         /\ last' = Resp("ConceptL2Add", nextId.concept, "ok")
         /\ UNCHANGED <<clock, txn, relTypes, edges, edgeAttrs, formulas, infoValues,
                        calcModels, calcBlocks, assemblies, blockFormulas>>

\* ConceptLevel2Admin add view of request t, first half: the form is
\* validated; cleaning root_lv2 loads the parent row p, and the kind that
\* save_model will copy is the kind of that loaded row.
ConceptL2AddValidate(t, key, kind, p) ==
    /\ txn[t] = NoRequest
    /\ IF p \notin RootChoices
       THEN /\ last' = Resp("ConceptL2AddValidate", NULL, "HierarchyViolation")
            /\ UNCHANGED <<clock, txn, db, nextId>>
       ELSE IF ConceptKeyTaken(key, NULL)
       THEN /\ last' = Resp("ConceptL2AddValidate", NULL, "DuplicateKey")
            /\ UNCHANGED <<clock, txn, db, nextId>>
       ELSE /\ txn' = [txn EXCEPT ![t] =
                            [key |-> key, kind |-> InheritedKind(p, kind),
                             root_lv2 |-> p]]
            /\ UNCHANGED <<clock, db, nextId, last>>

\* ConceptLevel2Admin add view of request t, second half: save_model
\* assigns obj.kind = obj.root_lv2.kind from the parent row loaded by the
\* form and inserts the child; the parent row is not read again and was
\* not locked.
ConceptL2AddSave(t) ==
    /\ txn[t] # NoRequest
    /\ txn[t].root_lv2 # NULL
    /\ txn' = [txn EXCEPT ![t] = NoRequest]
    /\ IF txn[t].root_lv2 \notin DOMAIN concepts
       THEN /\ last' = Resp("ConceptL2AddSave", NULL, "NotFound")
            /\ UNCHANGED <<clock, db, nextId>>
       ELSE IF ConceptKeyIndexConflict(txn[t].key)
       THEN /\ last' = Resp("ConceptL2AddSave", NULL, "DuplicateKey")
            /\ UNCHANGED <<clock, db, nextId>>
       ELSE /\ concepts' = Insert(concepts, nextId.concept,
                                  [key |-> txn[t].key, kind |-> txn[t].kind,
                                   root_lv2 |-> txn[t].root_lv2,
                                   is_active |-> TRUE, updated_at |-> clock])
            /\ nextId' = [nextId EXCEPT !.concept = @ + 1]
            /\ last' = Resp("ConceptL2AddSave", nextId.concept, "ok")
            /\ UNCHANGED <<clock, relTypes, edges, edgeAttrs, formulas, infoValues,
                           calcModels, calcBlocks, assemblies, blockFormulas>>

\* ConceptLevel2Admin change view of row c: the parent may be reassigned to
\* another level-1 concept, the kind is copied from the new parent.
ConceptL2Change(c, key, kind, p) ==
    IF c \notin Level2Queryset
    THEN Refuse("ConceptL2Change", c, "NotFound")
    ELSE IF p \notin RootChoices
    THEN Refuse("ConceptL2Change", c, "HierarchyViolation")
    ELSE IF ConceptKeyTaken(key, c)
    THEN Refuse("ConceptL2Change", c, "DuplicateKey")
    ELSE /\ concepts' = [concepts EXCEPT ![c].key = key,
                                         ![c].kind = InheritedKind(p, kind),
                                         ![c].root_lv2 = p]
         /\ last' = Resp("ConceptL2Change", c, "ok")
         /\ UNCHANGED <<clock, txn, relTypes, edges, edgeAttrs, formulas, infoValues,
                        calcModels, calcBlocks, assemblies, blockFormulas, nextId>>

ConceptProtectedByChildren(c) ==
    {<<"navis_concept", k>> : k \in {k \in DOMAIN concepts : concepts[k].root_lv2 = c}}

ConceptProtectedByOverlays(c) ==
    {<<"navis_concept", k>> : k \in {k \in DOMAIN concepts : concepts[k].root_lv2 = c}}
    \cup {<<"calc_block_formula", f>> :
            f \in {f \in DOMAIN blockFormulas : blockFormulas[f].formula_concept = c}}
    \cup {<<"navis_formula", k>> : k \in {c} \cap DOMAIN formulas}
    \cup {<<"navis_info_value", k>> : k \in {c} \cap DOMAIN infoValues}

\* The rows that block the delete of concept c, on_delete=PROTECT towards
\* Concept: Concept.root_lv2 (its children) and
\* CalcBlockFormula.formula_concept.
ConceptProtectedBy(c) ==
    {<<"navis_concept", k>> : k \in {k \in DOMAIN concepts : concepts[k].root_lv2 = c}}
    \cup {<<"calc_block_formula", f>> :
            f \in {f \in DOMAIN blockFormulas : blockFormulas[f].formula_concept = c}}

\* on_delete=CASCADE towards Concept: Edge.from_concept, Edge.to_concept
EdgesOfConcept(c) ==
    {e \in DOMAIN edges :
        edges[e].from_concept = c \/ edges[e].to_concept = c}

AttrsOfEdgesNone(es) ==
    {}

\* on_delete=CASCADE towards Edge: EdgeAttribute.edge
AttrsOfEdges(es) ==
    {a \in DOMAIN edgeAttrs : edgeAttrs[a].edge \in es}

OverlaysKept(c) ==
    {}

\* on_delete=CASCADE towards Concept: Formula.concept, InfoValue.concept
\* (both keyed by the concept's id).
OverlaysOfConcept(c) ==
    {c}

\* The tables the delete of c removes dependent rows from.
CascadedTables(c) ==
    {"navis_edge" : e \in EdgesOfConcept(c)}
    \cup {"navis_edge_attr" : a \in AttrsOfEdges(EdgesOfConcept(c))}
    \cup {"navis_formula" : k \in OverlaysOfConcept(c) \cap DOMAIN formulas}
    \cup {"navis_info_value" : k \in OverlaysOfConcept(c) \cap DOMAIN infoValues}

ConceptDeleteCascadeFirst(c) ==
    IF c \notin DOMAIN concepts
    THEN Refuse("ConceptDelete", c, "NotFound")
    ELSE /\ edges' = Remove(edges, EdgesOfConcept(c))
         /\ edgeAttrs' = Remove(edgeAttrs, AttrsOfEdges(EdgesOfConcept(c)))
         /\ formulas' = Remove(formulas, OverlaysOfConcept(c))
         /\ infoValues' = Remove(infoValues, OverlaysOfConcept(c))
         /\ IF ConceptProtectedBy(c) # {}
            THEN /\ last' = Resp("ConceptDelete", c, "ProtectedReference")
                 /\ UNCHANGED concepts
            ELSE /\ concepts' = Remove(concepts, {c})
                 /\ last' = [Resp("ConceptDelete", c, "ok") EXCEPT
                                !.cascaded = CascadedTables(c)]
         /\ UNCHANGED <<clock, txn, relTypes, calcModels, calcBlocks, assemblies,
                        blockFormulas, nextId>>

\* The delete view of either concept screen: the collector refuses when a
\* PROTECT reference exists, else the row goes with everything that
\* cascades from it.
ConceptDelete(c) ==
    IF c \notin DOMAIN concepts
    THEN Refuse("ConceptDelete", c, "NotFound")
    ELSE IF ConceptProtectedBy(c) # {}
    THEN Refuse("ConceptDelete", c, "ProtectedReference")
    ELSE /\ concepts' = Remove(concepts, {c})
         /\ edges' = Remove(edges, EdgesOfConcept(c))
         /\ edgeAttrs' = Remove(edgeAttrs, AttrsOfEdges(EdgesOfConcept(c)))
         /\ formulas' = Remove(formulas, OverlaysOfConcept(c))
         /\ infoValues' = Remove(infoValues, OverlaysOfConcept(c))
         /\ last' = [Resp("ConceptDelete", c, "ok") EXCEPT
                        !.cascaded = CascadedTables(c)]
         /\ UNCHANGED <<clock, txn, relTypes, calcModels, calcBlocks, assemblies,
                        blockFormulas, nextId>>

(***************************************************************************)
(* RelationType: RelationTypeAdmin                                         *)
(***************************************************************************)
\* unique=True on RelationType.key
RelTypeKeyTaken(key, self) ==
    \E r \in DOMAIN relTypes : r # self /\ relTypes[r].key = key

\* The choices of RelationType.parent: the field is a plain nullable
\* ForeignKey("self") with no limit_choices_to and the admin adds no clean():
\* every stored type, the edited one included, or no parent at all.
ParentChoices ==
    DOMAIN relTypes \cup {NULL}

\* RelationTypeAdmin add view
RelTypeAdd(key, parent) ==
    IF parent \notin ParentChoices
    THEN Refuse("RelTypeAdd", NULL, "NotFound")
    ELSE IF RelTypeKeyTaken(key, NULL)
    THEN Refuse("RelTypeAdd", NULL, "DuplicateKey")
    ELSE /\ relTypes' = Insert(relTypes, nextId.relType,
                               [key |-> key, parent |-> parent])
         /\ nextId' = [nextId EXCEPT !.relType = @ + 1]
         /\ last' = Resp("RelTypeAdd", nextId.relType, "ok")
         /\ UNCHANGED <<clock, txn, concepts, edges, edgeAttrs, formulas, infoValues,
                        calcModels, calcBlocks, assemblies, blockFormulas>>

\* RelationTypeAdmin change view of row r
RelTypeChange(r, key, parent) ==
    IF r \notin DOMAIN relTypes \/ parent \notin ParentChoices
    THEN Refuse("RelTypeChange", r, "NotFound")
    ELSE IF RelTypeKeyTaken(key, r)
    THEN Refuse("RelTypeChange", r, "DuplicateKey")
    ELSE /\ relTypes' = [relTypes EXCEPT ![r] = [key |-> key, parent |-> parent]]
         /\ last' = Resp("RelTypeChange", r, "ok")
         /\ UNCHANGED <<clock, txn, concepts, edges, edgeAttrs, formulas, infoValues,
                        calcModels, calcBlocks, assemblies, blockFormulas, nextId>>

RelTypeProtectedByChildrenOnly(r) ==
    [children |-> {k \in DOMAIN relTypes : relTypes[k].parent = r},
     edges |-> {}]

\* on_delete=PROTECT towards RelationType: RelationType.parent (children)
\* and Edge.relation_type.
RelTypeProtectedBy(r) ==
    [children |-> {k \in DOMAIN relTypes : relTypes[k].parent = r},
     edges |-> {e \in DOMAIN edges : edges[e].relation_type = r}]

\* RelationTypeAdmin delete view: nothing cascades from a relation type.
RelTypeDelete(r) ==
    IF r \notin DOMAIN relTypes
    THEN Refuse("RelTypeDelete", r, "NotFound")
    ELSE IF RelTypeProtectedBy(r).children # {} \/ RelTypeProtectedBy(r).edges # {}
    THEN Refuse("RelTypeDelete", r, "ProtectedReference")
    ELSE /\ relTypes' = Remove(relTypes, {r})
         /\ last' = Resp("RelTypeDelete", r, "ok")
         /\ UNCHANGED <<clock, txn, concepts, edges, edgeAttrs, formulas, infoValues,
                        calcModels, calcBlocks, assemblies, blockFormulas, nextId>>

(***************************************************************************)
(* Edge: EdgeAdmin                                                         *)
(***************************************************************************)
EdgeConflictsUnique(f, r, t) ==
    {e \in DOMAIN edges : /\ edges[e].from_concept = f
                          /\ edges[e].relation_type = r
                          /\ edges[e].to_concept = t}

\* Edge.Meta declares indexes only: no constraint on (from, type, to), so
\* no stored edge ever conflicts with a new one.
EdgeConflicts(f, r, t) ==
    {}

\* The three foreign keys of the form must name stored rows.
EdgeRefsExist(f, r, t) ==
    /\ f \in DOMAIN concepts
    /\ t \in DOMAIN concepts
    /\ r \in DOMAIN relTypes

\* EdgeAdmin add view
EdgeAdd(f, r, t, w) ==
    IF ~EdgeRefsExist(f, r, t)
    THEN Refuse("EdgeAdd", NULL, "NotFound")
    ELSE IF EdgeConflicts(f, r, t) # {}
    THEN Refuse("EdgeAdd", NULL, "DuplicateKey")
    ELSE /\ edges' = Insert(edges, nextId.edge,
                            [from_concept |-> f, relation_type |-> r,
                             to_concept |-> t, weight |-> w,
                             updated_at |-> clock])
         /\ nextId' = [nextId EXCEPT !.edge = @ + 1]
         /\ last' = Resp("EdgeAdd", nextId.edge, "ok")
         /\ UNCHANGED <<clock, txn, concepts, relTypes, edgeAttrs, formulas, infoValues,
                        calcModels, calcBlocks, assemblies, blockFormulas>>

\* EdgeAdmin change view of row e: all four fields are editable.
EdgeChange(e, f, r, t, w) ==
    IF e \notin DOMAIN edges \/ ~EdgeRefsExist(f, r, t)
    THEN Refuse("EdgeChange", e, "NotFound")
    ELSE IF EdgeConflicts(f, r, t) \ {e} # {}
    THEN Refuse("EdgeChange", e, "DuplicateKey")
    ELSE /\ edges' = [edges EXCEPT ![e].from_concept = f,
                                   ![e].relation_type = r,
                                   ![e].to_concept = t, ![e].weight = w]
         /\ last' = Resp("EdgeChange", e, "ok")
         /\ UNCHANGED <<clock, txn, concepts, relTypes, edgeAttrs, formulas, infoValues,
                        calcModels, calcBlocks, assemblies, blockFormulas, nextId>>

\* EdgeAdmin delete view: the edge's attributes cascade with it.
EdgeDelete(e) ==
    IF e \notin DOMAIN edges
    THEN Refuse("EdgeDelete", e, "NotFound")
    ELSE /\ edges' = Remove(edges, {e})
         /\ edgeAttrs' = Remove(edgeAttrs, AttrsOfEdges({e}))
         /\ last' = [Resp("EdgeDelete", e, "ok") EXCEPT
                        !.cascaded = {"navis_edge_attr" : a \in AttrsOfEdges({e})}]
         /\ UNCHANGED <<clock, txn, concepts, relTypes, formulas, infoValues,
                        calcModels, calcBlocks, assemblies, blockFormulas, nextId>>

(***************************************************************************)
(* EdgeAttribute: EdgeAttributeAdmin / EdgeAttributeInline                 *)
(***************************************************************************)
\* unique_together = (("edge", "key"),)
AttrTaken(e, key, self) ==
    \E a \in DOMAIN edgeAttrs :
        a # self /\ edgeAttrs[a].edge = e /\ edgeAttrs[a].key = key

\* add view: a second row for the same (edge, key) is a validation error.
AttrAdd(e, key, value) ==
    IF e \notin DOMAIN edges
    THEN Refuse("AttrAdd", NULL, "NotFound")
    ELSE IF AttrTaken(e, key, NULL)
    THEN Refuse("AttrAdd", NULL, "DuplicateKey")
    ELSE /\ edgeAttrs' = Insert(edgeAttrs, nextId.attr,
                                [edge |-> e, key |-> key, value_text |-> value])
         /\ nextId' = [nextId EXCEPT !.attr = @ + 1]
         /\ last' = Resp("AttrAdd", nextId.attr, "ok")
         /\ UNCHANGED <<clock, txn, concepts, relTypes, edges, formulas, infoValues,
                        calcModels, calcBlocks, assemblies, blockFormulas>>

\* change view of row a: edge, key and value_text are editable; the
\* (edge, key) pair is checked against the other rows.
AttrChange(a, e, key, value) ==
    IF a \notin DOMAIN edgeAttrs \/ e \notin DOMAIN edges
    THEN Refuse("AttrChange", a, "NotFound")
    ELSE IF AttrTaken(e, key, a)
    THEN Refuse("AttrChange", a, "DuplicateKey")
    ELSE /\ edgeAttrs' = [edgeAttrs EXCEPT ![a] =
                            [edge |-> e, key |-> key, value_text |-> value]]
         /\ last' = Resp("AttrChange", a, "ok")
         /\ UNCHANGED <<clock, txn, concepts, relTypes, edges, formulas, infoValues,
                        calcModels, calcBlocks, assemblies, blockFormulas, nextId>>

(***************************************************************************)
(* Formula and InfoValue: FormulaAdmin, InfoValueAdmin                     *)
(***************************************************************************)
\* FormulaAdmin add view: concept is the primary key, so a second row for
\* the same concept is a validation error; the concept's kind is not read.
FormulaAdd(c, expr) ==
    IF c \notin DOMAIN concepts
    THEN Refuse("FormulaAdd", c, "NotFound")
    ELSE IF c \in DOMAIN formulas
    THEN Refuse("FormulaAdd", c, "DuplicateKey")
    ELSE /\ formulas' = Insert(formulas, c, [expression |-> expr])
         /\ last' = Resp("FormulaAdd", c, "ok")
         /\ UNCHANGED <<clock, txn, concepts, relTypes, edges, edgeAttrs, infoValues,
                        calcModels, calcBlocks, assemblies, blockFormulas, nextId>>

\* FormulaAdmin delete view: nothing references a Formula row, the concept
\* and the CalcBlockFormula rows that name the concept stay.
FormulaDelete(c) ==
    IF c \notin DOMAIN formulas
    THEN Refuse("FormulaDelete", c, "NotFound")
    ELSE /\ formulas' = Remove(formulas, {c})
         /\ last' = Resp("FormulaDelete", c, "ok")
         /\ UNCHANGED <<clock, txn, concepts, relTypes, edges, edgeAttrs, infoValues,
                        calcModels, calcBlocks, assemblies, blockFormulas, nextId>>

\* InfoValueAdmin add view: value_num and value_text are both null=True,
\* blank=True and the admin adds no clean().
InfoValueAdd(c, num, text) ==
    IF c \notin DOMAIN concepts
    THEN Refuse("InfoValueAdd", c, "NotFound")
    ELSE IF c \in DOMAIN infoValues
    THEN Refuse("InfoValueAdd", c, "DuplicateKey")
    ELSE /\ infoValues' = Insert(infoValues, c,
                                 [value_num |-> num, value_text |-> text])
         /\ last' = Resp("InfoValueAdd", c, "ok")
         /\ UNCHANGED <<clock, txn, concepts, relTypes, edges, edgeAttrs, formulas,
                        calcModels, calcBlocks, assemblies, blockFormulas, nextId>>

\* InfoValueAdmin change view of the row of concept c: both value fields
\* are editable and optional.  NULL stands for a field left empty.
InfoValueChange(c, num, text) ==
    IF c \notin DOMAIN infoValues
    THEN Refuse("InfoValueChange", c, "NotFound")
    ELSE /\ infoValues' = [infoValues EXCEPT ![c] =
                              [value_num |-> num, value_text |-> text]]
         /\ last' = Resp("InfoValueChange", c, "ok")
         /\ UNCHANGED <<clock, txn, concepts, relTypes, edges, edgeAttrs, formulas,
                        calcModels, calcBlocks, assemblies, blockFormulas, nextId>>

(***************************************************************************)
(* CalcModel, CalcBlock and their join tables                              *)
(***************************************************************************)
\* CalcModelAdmin add view; model_key is unique.
CalcModelAdd(key) ==
    IF \E m \in DOMAIN calcModels : calcModels[m].model_key = key
    THEN Refuse("CalcModelAdd", NULL, "DuplicateKey")
    ELSE /\ calcModels' = Insert(calcModels, nextId.model, [model_key |-> key])
         /\ nextId' = [nextId EXCEPT !.model = @ + 1]
         /\ last' = Resp("CalcModelAdd", nextId.model, "ok")
         /\ UNCHANGED <<clock, txn, concepts, relTypes, edges, edgeAttrs, formulas, infoValues,
                        calcBlocks, assemblies, blockFormulas>>

\* CalcBlockAdmin add view; block_key is unique.
CalcBlockAdd(key) ==
    IF \E b \in DOMAIN calcBlocks : calcBlocks[b].block_key = key
    THEN Refuse("CalcBlockAdd", NULL, "DuplicateKey")
    ELSE /\ calcBlocks' = Insert(calcBlocks, nextId.block, [block_key |-> key])
         /\ nextId' = [nextId EXCEPT !.block = @ + 1]
         /\ last' = Resp("CalcBlockAdd", nextId.block, "ok")
         /\ UNCHANGED <<clock, txn, concepts, relTypes, edges, edgeAttrs, formulas, infoValues,
                        calcModels, assemblies, blockFormulas>>

\* CalcModelAdmin delete view: CalcModelAssembly.model is
\* on_delete=CASCADE, nothing protects a model.
CalcModelDelete(m) ==
    IF m \notin DOMAIN calcModels
    THEN Refuse("CalcModelDelete", m, "NotFound")
    ELSE /\ calcModels' = Remove(calcModels, {m})
         /\ assemblies' = Remove(assemblies,
                                 {a \in DOMAIN assemblies : assemblies[a].model = m})
         /\ last' = Resp("CalcModelDelete", m, "ok")
         /\ UNCHANGED <<clock, txn, concepts, relTypes, edges, edgeAttrs, formulas, infoValues,
                        calcBlocks, blockFormulas, nextId>>

\* CalcBlockAdmin delete view: CalcModelAssembly.block and
\* CalcBlockFormula.block are on_delete=CASCADE; the formula concepts are
\* referenced by the join rows, not owned by them.
CalcBlockDelete(b) ==
    IF b \notin DOMAIN calcBlocks
    THEN Refuse("CalcBlockDelete", b, "NotFound")
    ELSE /\ calcBlocks' = Remove(calcBlocks, {b})
         /\ assemblies' = Remove(assemblies,
                                 {a \in DOMAIN assemblies : assemblies[a].block = b})
         /\ blockFormulas' = Remove(blockFormulas,
                                    {f \in DOMAIN blockFormulas :
                                        blockFormulas[f].block = b})
         /\ last' = Resp("CalcBlockDelete", b, "ok")
         /\ UNCHANGED <<clock, txn, concepts, relTypes, edges, edgeAttrs, formulas, infoValues,
                        calcModels, nextId>>

AssemblyNeverTaken(m, b, self) ==
    FALSE

\* CalcModelAssembly: unique_together = (("model", "block"),); order_no is
\* in no constraint.
AssemblyTaken(m, b, self) ==
    \E a \in DOMAIN assemblies :
        a # self /\ assemblies[a].model = m /\ assemblies[a].block = b

\* CalcModelAssemblyAdmin add view / CalcModelAssemblyInline
AssemblyAdd(m, b, n) ==
    IF m \notin DOMAIN calcModels \/ b \notin DOMAIN calcBlocks
    THEN Refuse("AssemblyAdd", NULL, "NotFound")
    ELSE IF AssemblyTaken(m, b, NULL)
    THEN Refuse("AssemblyAdd", NULL, "DuplicateKey")
    ELSE /\ assemblies' = Insert(assemblies, nextId.assembly,
                                 [model |-> m, block |-> b, order_no |-> n])
         /\ nextId' = [nextId EXCEPT !.assembly = @ + 1]
         /\ last' = Resp("AssemblyAdd", nextId.assembly, "ok")
         /\ UNCHANGED <<clock, txn, concepts, relTypes, edges, edgeAttrs, formulas, infoValues,
                        calcModels, calcBlocks, blockFormulas>>

\* CalcModelAssemblyAdmin change view of row a: model, block and order_no
\* are editable; the form's validate_unique checks (model, block) against
\* the other rows.
AssemblyChange(a, m, b, n) ==
    IF a \notin DOMAIN assemblies \/ m \notin DOMAIN calcModels
                                  \/ b \notin DOMAIN calcBlocks
    THEN Refuse("AssemblyChange", a, "NotFound")
    ELSE IF AssemblyTaken(m, b, a)
    THEN Refuse("AssemblyChange", a, "DuplicateKey")
    ELSE /\ assemblies' = [assemblies EXCEPT ![a] =
                              [model |-> m, block |-> b, order_no |-> n]]
         /\ last' = Resp("AssemblyChange", a, "ok")
         /\ UNCHANGED <<clock, txn, concepts, relTypes, edges, edgeAttrs, formulas, infoValues,
                        calcModels, calcBlocks, blockFormulas, nextId>>

\* CalcModelAssemblyAdmin change list: order_no is list_editable.
AssemblyReorder(a, n) ==
    IF a \notin DOMAIN assemblies
    THEN Refuse("AssemblyReorder", a, "NotFound")
    ELSE /\ assemblies' = [assemblies EXCEPT ![a].order_no = n]
         /\ last' = Resp("AssemblyReorder", a, "ok")
         /\ UNCHANGED <<clock, txn, concepts, relTypes, edges, edgeAttrs, formulas, infoValues,
                        calcModels, calcBlocks, blockFormulas, nextId>>

\* CalcModelAssemblyAdmin delete view
AssemblyDelete(a) ==
    IF a \notin DOMAIN assemblies
    THEN Refuse("AssemblyDelete", a, "NotFound")
    ELSE /\ assemblies' = Remove(assemblies, {a})
         /\ last' = Resp("AssemblyDelete", a, "ok")
         /\ UNCHANGED <<clock, txn, concepts, relTypes, edges, edgeAttrs, formulas, infoValues,
                        calcModels, calcBlocks, blockFormulas, nextId>>

BlockFormulaNeverTaken(b, c) ==
    FALSE

\* CalcBlockFormula: unique_together = (("block", "formula_concept"),)
BlockFormulaTaken(b, c) ==
    \E f \in DOMAIN blockFormulas :
        blockFormulas[f].block = b /\ blockFormulas[f].formula_concept = c

\* CalcBlockFormulaAdmin add view / CalcBlockFormulaInline: any stored
\* concept may be named, whether or not a Formula row exists for it.
BlockFormulaAdd(b, c) ==
    IF b \notin DOMAIN calcBlocks \/ c \notin DOMAIN concepts
    THEN Refuse("BlockFormulaAdd", NULL, "NotFound")
    ELSE IF BlockFormulaTaken(b, c)
    THEN Refuse("BlockFormulaAdd", NULL, "DuplicateKey")
    ELSE /\ blockFormulas' = Insert(blockFormulas, nextId.blockFormula,
                                    [block |-> b, formula_concept |-> c])
         /\ nextId' = [nextId EXCEPT !.blockFormula = @ + 1]
         /\ last' = Resp("BlockFormulaAdd", nextId.blockFormula, "ok")
         /\ UNCHANGED <<clock, txn, concepts, relTypes, edges, edgeAttrs, formulas, infoValues,
                        calcModels, calcBlocks, assemblies>>

\* CalcBlockFormulaAdmin delete view
BlockFormulaDelete(f) ==
    IF f \notin DOMAIN blockFormulas
    THEN Refuse("BlockFormulaDelete", f, "NotFound")
    ELSE /\ blockFormulas' = Remove(blockFormulas, {f})
         /\ last' = Resp("BlockFormulaDelete", f, "ok")
         /\ UNCHANGED <<clock, txn, concepts, relTypes, edges, edgeAttrs, formulas, infoValues,
                        calcModels, calcBlocks, assemblies, nextId>>

(***************************************************************************)
(* CalcAssembly.resolve_model(model_key): the execution plan of a model.   *)
(* The rows come from storage in no particular order; they are sorted by   *)
(* order_no (blocks) and by concept key (formulas of a block).             *)
(***************************************************************************)
\* All orders in which the rows of set S can be listed.
Perms(S) ==
    {s \in [1..Cardinality(S) -> S] : \A i, j \in 1..Cardinality(S) :
                                            i # j => s[i] # s[j]}

\* The rows of S listed by ascending primary key.
RECURSIVE ById(_)
ById(S) ==
    IF S = {} THEN <<>>
    ELSE LET least == CHOOSE x \in S : \A y \in S : x <= y
         IN <<least>> \o ById(S \ {least})

\* x put into the sorted list s behind every element whose rank is not
\* greater (a stable insertion sort, rank[x] being the sort key).
RECURSIVE InsertSorted(_, _, _)
InsertSorted(s, x, rank) ==
    IF s = <<>> THEN <<x>>
    ELSE IF rank[s[Len(s)]] <= rank[x] THEN Append(s, x)
    ELSE Append(InsertSorted(SubSeq(s, 1, Len(s) - 1), x, rank), s[Len(s)])

RECURSIVE SortBy(_, _)
SortBy(s, rank) ==
    IF s = <<>> THEN <<>>
    ELSE InsertSorted(SortBy(SubSeq(s, 1, Len(s) - 1), rank), s[Len(s)], rank)

\* step 1: the assembly rows of model m
AssembliesOf(m) ==
    {a \in DOMAIN assemblies : assemblies[a].model = m}

\* step 2: the formula concepts of block b, sorted by concept key
BlockPlan(b) ==
    LET rows == {f \in DOMAIN blockFormulas : blockFormulas[f].block = b}
        rank == [f \in rows |-> concepts[blockFormulas[f].formula_concept].key]
        sorted == SortBy(ById(rows), rank)
    IN [i \in 1..Len(sorted) |-> blockFormulas[sorted[i]].formula_concept]

\* step 3: the block plans one after the other, in the order of the rows
RECURSIVE Concatenate(_)
Concatenate(rows) ==
    IF rows = <<>> THEN <<>>
    ELSE BlockPlan(assemblies[rows[1]].block) \o Concatenate(Tail(rows))

\* The plans the call can return: one for every order in which storage
\* hands over the assembly rows before they are sorted by order_no.
Plans(m) ==
    {Concatenate(SortBy(loaded, [a \in AssembliesOf(m) |-> assemblies[a].order_no])) :
        loaded \in Perms(AssembliesOf(m))}

OrphansIgnored(m) ==
    {}

\* step 3: the formula concepts of m's blocks that have no Formula row
Orphans(m) ==
    {f \in DOMAIN blockFormulas :
        /\ \E a \in AssembliesOf(m) : assemblies[a].block = blockFormulas[f].block
        /\ blockFormulas[f].formula_concept \notin DOMAIN formulas}

\* resolve_model: a query, nothing is written.
ResolveModel(m) ==
    IF m \notin DOMAIN calcModels
    THEN Refuse("ResolveModel", m, "NotFound")
    ELSE IF Orphans(m) # {}
    THEN Refuse("ResolveModel", m, "OrphanReference")
    ELSE \E plan \in Plans(m) :
            /\ last' = [Resp("ResolveModel", m, "ok") EXCEPT !.plan = plan]
            /\ UNCHANGED <<clock, txn, db, nextId>>

(***************************************************************************)
(* CalcAssembly.structural_version(model_key): max(updated_at) over the    *)
(* model's assembly rows, its blocks' formula-join rows and the            *)
(* 'describes' edges of those formulas.  calc_model_assembly and           *)
(* calc_block_formula have no updated_at column, so only the edges         *)
(* contribute a value.                                                     *)
(***************************************************************************)
\* the formula concepts of the blocks of model m
FormulaConceptsOf(m) ==
    {blockFormulas[f].formula_concept :
        f \in {g \in DOMAIN blockFormulas :
                  \E a \in AssembliesOf(m) :
                      assemblies[a].block = blockFormulas[g].block}}

\* the outgoing 'describes' edges of the formula concepts of model m
DescribesEdgesOf(m) ==
    {e \in DOMAIN edges :
        /\ edges[e].from_concept \in FormulaConceptsOf(m)
        /\ edges[e].relation_type \in DOMAIN relTypes
        /\ relTypes[edges[e].relation_type].key = Describes}

\* the greatest element of a set of timestamps, NULL for none
MaxOf(S) ==
    IF S = {} THEN NULL ELSE CHOOSE x \in S : \A y \in S : y <= x

StructuralVersion(m) ==
    MaxOf({edges[e].updated_at : e \in DescribesEdgesOf(m)})

(***************************************************************************)
(* The shape of the tables                                                 *)
(***************************************************************************)
TypeOK ==
    /\ DOMAIN concepts \subseteq 1..(nextId.concept - 1)
    /\ \A c \in DOMAIN concepts :
            /\ concepts[c].key \in Nat
            /\ concepts[c].kind \in Kinds
            /\ concepts[c].root_lv2 \in Nat
            /\ concepts[c].is_active \in BOOLEAN
            /\ concepts[c].updated_at \in 1..clock
    /\ DOMAIN relTypes \subseteq 1..(nextId.relType - 1)
    /\ \A r \in DOMAIN relTypes :
            relTypes[r].key \in Nat /\ relTypes[r].parent \in Nat
    /\ DOMAIN edges \subseteq 1..(nextId.edge - 1)
    /\ \A e \in DOMAIN edges :
            /\ edges[e].from_concept \in Nat
            /\ edges[e].relation_type \in Nat
            /\ edges[e].to_concept \in Nat
            /\ edges[e].weight \in Nat
            /\ edges[e].updated_at \in 1..clock
    /\ DOMAIN edgeAttrs \subseteq 1..(nextId.attr - 1)
    /\ \A a \in DOMAIN edgeAttrs :
            /\ edgeAttrs[a].edge \in Nat
            /\ edgeAttrs[a].key \in Nat
            /\ edgeAttrs[a].value_text \in Nat
    /\ \A c \in DOMAIN formulas : formulas[c].expression \in Nat
    /\ \A c \in DOMAIN infoValues :
            infoValues[c].value_num \in Nat /\ infoValues[c].value_text \in Nat
    /\ DOMAIN calcModels \subseteq 1..(nextId.model - 1)
    /\ \A m \in DOMAIN calcModels : calcModels[m].model_key \in Nat
    /\ DOMAIN calcBlocks \subseteq 1..(nextId.block - 1)
    /\ \A b \in DOMAIN calcBlocks : calcBlocks[b].block_key \in Nat
    /\ DOMAIN assemblies \subseteq 1..(nextId.assembly - 1)
    /\ \A a \in DOMAIN assemblies :
            /\ assemblies[a].model \in Nat
            /\ assemblies[a].block \in Nat
            /\ assemblies[a].order_no \in Nat
    /\ DOMAIN blockFormulas \subseteq 1..(nextId.blockFormula - 1)
    /\ \A f \in DOMAIN blockFormulas :
            /\ blockFormulas[f].block \in Nat
            /\ blockFormulas[f].formula_concept \in Nat
    /\ clock \in Nat
    /\ \A t \in Txns :
            txn[t] = NoRequest \/ (/\ txn[t].key \in Nat
                                    /\ txn[t].kind \in Kinds
                                    /\ txn[t].root_lv2 \in Nat)
    /\ last.op \in STRING /\ last.result \in STRING /\ last.id \in Nat

(***************************************************************************)
(* Initial state: the empty database after migration                       *)
(***************************************************************************)
Init ==
    /\ concepts = Empty
    /\ relTypes = Empty
    /\ edges = Empty
    /\ edgeAttrs = Empty
    /\ formulas = Empty
    /\ infoValues = Empty
    /\ calcModels = Empty
    /\ calcBlocks = Empty
    /\ assemblies = Empty
    /\ blockFormulas = Empty
    /\ nextId = [concept |-> 1, relType |-> 1, edge |-> 1, attr |-> 1,
                 model |-> 1, block |-> 1, assembly |-> 1, blockFormula |-> 1]
    /\ clock = 1
    /\ txn = [t \in Txns |-> NoRequest]
    /\ last = Resp("none", NULL, "ok")

(***************************************************************************)
(* The concept screens alone                                               *)
(***************************************************************************)
\* the kinds a request submits (two of the four suffice to tell them apart)
KindInputs == {"O", "I"}

NextConcept ==
    \/ \E key \in Keys, kind \in KindInputs :
            nextId.concept <= MaxConcepts /\ ConceptL1Add(key, kind)
    \/ \E c \in DOMAIN concepts, key \in Keys, kind \in KindInputs :
            ConceptL1Change(c, key, kind)
    \/ \E key \in Keys, kind \in KindInputs, p \in DOMAIN concepts :
            nextId.concept <= MaxConcepts /\ ConceptL2Add(key, kind, p)
    \/ \E c \in DOMAIN concepts, key \in Keys, kind \in KindInputs,
          p \in DOMAIN concepts :
            ConceptL2Change(c, key, kind, p)
    \/ \E c \in DOMAIN concepts : ConceptDelete(c)

SpecConcept == Init /\ [][NextConcept]_vars

(***************************************************************************)
(* Deleting concepts.  The database already holds the root relation type   *)
(* and one model made of one block; concepts are created with fresh keys   *)
(* and every table that references a concept gets rows.                    *)
(***************************************************************************)
InitDelete ==
    /\ concepts = Empty
    /\ relTypes = Insert(Empty, 1, [key |-> 1, parent |-> NULL])
    /\ edges = Empty
    /\ edgeAttrs = Empty
    /\ formulas = Empty
    /\ infoValues = Empty
    /\ calcModels = Insert(Empty, 1, [model_key |-> 1])
    /\ calcBlocks = Insert(Empty, 1, [block_key |-> 1])
    /\ assemblies = Insert(Empty, 1, [model |-> 1, block |-> 1, order_no |-> 1])
    /\ blockFormulas = Empty
    /\ nextId = [concept |-> 1, relType |-> 2, edge |-> 1, attr |-> 1,
                 model |-> 2, block |-> 2, assembly |-> 2, blockFormula |-> 1]
    /\ clock = 1
    /\ txn = [t \in Txns |-> NoRequest]
    /\ last = Resp("none", NULL, "ok")

\* Protected deletes: roots and children, block formulas, edges, formulas.
NextProtect ==
    \/ /\ nextId.concept <= MaxConceptsDel
       /\ ConceptL1Add(nextId.concept, "I")
    \/ \E p \in DOMAIN concepts :
            /\ nextId.concept <= MaxConceptsDel
            /\ ConceptL2Add(nextId.concept, "I", p)
    \/ \E f \in DOMAIN concepts, r \in DOMAIN relTypes, t \in DOMAIN concepts :
            nextId.edge <= MaxEdgesDel /\ f <= t /\ EdgeAdd(f, r, t, NULL)
    \/ \E c \in DOMAIN concepts \ DOMAIN formulas : FormulaAdd(c, 1)
    \/ \E b \in DOMAIN calcBlocks, c \in DOMAIN concepts :
            ~BlockFormulaTaken(b, c) /\ BlockFormulaAdd(b, c)
    \/ \E c \in DOMAIN concepts : ConceptDelete(c)

SpecProtect == InitDelete /\ [][NextProtect]_vars

\* Cascading deletes: level-1 concepts with edges, one edge attribute,
\* formulas, one info value and one block formula.
NextCascade ==
    \/ /\ nextId.concept <= MaxConceptsDel
       /\ ConceptL1Add(nextId.concept, "I")
    \/ \E f \in DOMAIN concepts, r \in DOMAIN relTypes, t \in DOMAIN concepts :
            nextId.edge <= MaxEdgesDel /\ f <= t /\ EdgeAdd(f, r, t, NULL)
    \/ \E e \in DOMAIN edges : edgeAttrs = Empty /\ AttrAdd(e, 1, 1)
    \/ \E c \in DOMAIN concepts \ DOMAIN formulas : FormulaAdd(c, 1)
    \/ \E c \in DOMAIN concepts : infoValues = Empty /\ InfoValueAdd(c, 1, NULL)
    \/ \E b \in DOMAIN calcBlocks, c \in DOMAIN concepts :
            blockFormulas = Empty /\ BlockFormulaAdd(b, c)
    \/ \E c \in DOMAIN concepts : ConceptDelete(c)

SpecCascade == InitDelete /\ [][NextCascade]_vars

(***************************************************************************)
(* The relation-type registry and the edges that use it: one concept (its  *)
(* edges are loops), relation types with fresh keys and any parent.        *)
(***************************************************************************)
NextRel ==
    \/ concepts = Empty /\ ConceptL1Add(1, "O")
    \/ \E parent \in ParentChoices :
            /\ nextId.relType <= MaxRelTypes
            /\ RelTypeAdd(nextId.relType, parent)
    \/ \E r \in DOMAIN relTypes, parent \in ParentChoices :
            RelTypeChange(r, relTypes[r].key, parent)
    \/ \E r \in DOMAIN relTypes : RelTypeDelete(r)
    \/ \E f \in DOMAIN concepts, r \in DOMAIN relTypes, t \in DOMAIN concepts :
            nextId.edge <= MaxEdgesRel /\ EdgeAdd(f, r, t, NULL)
    \/ \E e \in DOMAIN edges : EdgeDelete(e)

SpecRel == Init /\ [][NextRel]_vars

(***************************************************************************)
(* Calculation assembly: two information concepts whose keys run against   *)
(* their ids, one model and two blocks are stored; formulas, assembly rows *)
(* and block formulas come and go, and the model is resolved.              *)
(***************************************************************************)
InitCalc ==
    /\ concepts = Insert(Insert(Empty, 1, [key |-> 2, kind |-> "I", root_lv2 |-> NULL,
                                          is_active |-> TRUE, updated_at |-> 1]),
                         2, [key |-> 1, kind |-> "I", root_lv2 |-> NULL,
                             is_active |-> TRUE, updated_at |-> 1])
    /\ relTypes = Empty
    /\ edges = Empty
    /\ edgeAttrs = Empty
    /\ formulas = Empty
    /\ infoValues = Empty
    /\ calcModels = Insert(Empty, 1, [model_key |-> 1])
    /\ calcBlocks = Insert(Insert(Empty, 1, [block_key |-> 1]), 2, [block_key |-> 2])
    /\ assemblies = Empty
    /\ blockFormulas = Empty
    /\ nextId = [concept |-> 3, relType |-> 1, edge |-> 1, attr |-> 1,
                 model |-> 2, block |-> 3, assembly |-> 1, blockFormula |-> 1]
    /\ clock = 1
    /\ txn = [t \in Txns |-> NoRequest]
    /\ last = Resp("none", NULL, "ok")

NextCalc ==
    \/ \E c \in DOMAIN concepts \ DOMAIN formulas : FormulaAdd(c, 1)
    \/ \E c \in DOMAIN formulas : FormulaDelete(c)
    \/ \E m \in DOMAIN calcModels, b \in DOMAIN calcBlocks, n \in 1..MaxOrderNo :
            nextId.assembly <= MaxAssemblies /\ AssemblyAdd(m, b, n)
    \/ \E a \in DOMAIN assemblies, n \in 1..MaxOrderNo : AssemblyReorder(a, n)
    \/ \E a \in DOMAIN assemblies : AssemblyDelete(a)
    \/ \E b \in DOMAIN calcBlocks, c \in DOMAIN concepts :
            nextId.blockFormula <= MaxBlockFormulas /\ BlockFormulaAdd(b, c)
    \/ \E f \in DOMAIN blockFormulas : BlockFormulaDelete(f)
    \/ \E m \in DOMAIN calcModels : ResolveModel(m)

SpecCalc == InitCalc /\ [][NextCalc]_vars

(***************************************************************************)
(* Structural version: two information concepts, the relation type         *)
(* 'describes', two models and two blocks are stored; time passes, edges,  *)
(* assembly rows and block formulas are written and concepts are           *)
(* (de)activated.                                                          *)
(***************************************************************************)
InitVersion ==
    /\ concepts = Insert(Insert(Empty, 1, [key |-> 1, kind |-> "I", root_lv2 |-> NULL,
                                          is_active |-> TRUE, updated_at |-> 1]),
                         2, [key |-> 2, kind |-> "I", root_lv2 |-> NULL,
                             is_active |-> TRUE, updated_at |-> 1])
    /\ relTypes = Insert(Empty, 1, [key |-> Describes, parent |-> NULL])
    /\ edges = Empty
    /\ edgeAttrs = Empty
    /\ formulas = Empty
    /\ infoValues = Empty
    /\ calcModels = Insert(Insert(Empty, 1, [model_key |-> 1]), 2, [model_key |-> 2])
    /\ calcBlocks = Insert(Insert(Empty, 1, [block_key |-> 1]), 2, [block_key |-> 2])
    /\ assemblies = Empty
    /\ blockFormulas = Empty
    /\ nextId = [concept |-> 3, relType |-> 2, edge |-> 1, attr |-> 1,
                 model |-> 3, block |-> 3, assembly |-> 1, blockFormula |-> 1]
    /\ clock = 1
    /\ txn = [t \in Txns |-> NoRequest]
    /\ last = Resp("none", NULL, "ok")

NextVersion ==
    \/ clock < MaxClock /\ Tick
    \/ \E t \in DOMAIN concepts :
            nextId.edge <= MaxEdgesVer /\ EdgeAdd(1, 1, t, 1)
    \/ \E e \in DOMAIN edges, w \in 1..2 :
            EdgeChange(e, edges[e].from_concept, edges[e].relation_type,
                       edges[e].to_concept, w)
    \/ \E e \in DOMAIN edges : EdgeDelete(e)
    \/ \E m \in DOMAIN calcModels, b \in DOMAIN calcBlocks, n \in 1..2 :
            nextId.assembly <= MaxAssembliesVer /\ AssemblyAdd(m, b, n)
    \/ \E a \in DOMAIN assemblies, n \in 1..2 : AssemblyReorder(a, n)
    \/ \E a \in DOMAIN assemblies : AssemblyDelete(a)
    \/ \E b \in DOMAIN calcBlocks :
            nextId.blockFormula <= MaxBlockFormulasVer /\ BlockFormulaAdd(b, 1)
    \/ \E f \in DOMAIN blockFormulas : BlockFormulaDelete(f)

SpecVersion == InitVersion /\ [][NextVersion]_vars

(***************************************************************************)
(* Row timestamps: from the same stored rows, time passes and existing     *)
(* rows are updated.                                                       *)
(***************************************************************************)
NextBump ==
    \/ clock < MaxClock /\ Tick
    \/ \E t \in DOMAIN concepts :
            nextId.edge <= MaxEdgesVer /\ EdgeAdd(1, 1, t, 1)
    \/ \E e \in DOMAIN edges, w \in 1..2 :
            EdgeChange(e, edges[e].from_concept, edges[e].relation_type,
                       edges[e].to_concept, w)
    \/ \E ids \in SUBSET Level1Queryset, flag \in BOOLEAN :
            ConceptSetActive(ids, flag)
    \/ \E c \in DOMAIN concepts, kind \in KindInputs :
            ConceptL1Change(c, concepts[c].key, kind)
    \/ \E key \in Keys :
            nextId.concept <= MaxConceptsBump /\ ConceptL2Add(key, "O", 1)
    \/ \E c \in DOMAIN concepts, p \in DOMAIN concepts :
            ConceptL2Change(c, concepts[c].key, "O", p)

SpecBump == InitVersion /\ [][NextBump]_vars

(***************************************************************************)
(* Assembly rows: with two models and two blocks stored, assembly rows are *)
(* added, edited, reordered and deleted.                                   *)
(***************************************************************************)
NextAssembly ==
    \/ \E m \in DOMAIN calcModels, b \in DOMAIN calcBlocks, n \in 1..MaxOrderNo :
            nextId.assembly <= MaxAssembliesUniq /\ AssemblyAdd(m, b, n)
    \/ \E a \in DOMAIN assemblies, m \in DOMAIN calcModels,
          b \in DOMAIN calcBlocks, n \in 1..MaxOrderNo : AssemblyChange(a, m, b, n)
    \/ \E a \in DOMAIN assemblies, n \in 1..MaxOrderNo : AssemblyReorder(a, n)
    \/ \E a \in DOMAIN assemblies : AssemblyDelete(a)

SpecAssembly == InitVersion /\ [][NextAssembly]_vars

(***************************************************************************)
(* Scalar overlays: level-1 concepts of any kind are created and edited,   *)
(* formulas and values are attached to them.                               *)
(***************************************************************************)
\* what the two value fields of the InfoValue form can carry
ValueInputs == {NULL, 1}

NextOverlay ==
    \/ \E kind \in KindInputs :
            nextId.concept <= MaxConceptsOv /\ ConceptL1Add(nextId.concept, kind)
    \/ \E c \in DOMAIN concepts, kind \in KindInputs :
            ConceptL1Change(c, concepts[c].key, kind)
    \/ \E c \in DOMAIN concepts : FormulaAdd(c, 1)
    \/ \E c \in DOMAIN formulas : FormulaDelete(c)
    \/ \E c \in DOMAIN concepts, num \in ValueInputs, text \in ValueInputs :
            InfoValueAdd(c, num, text)
    \/ \E c \in DOMAIN infoValues, num \in ValueInputs, text \in ValueInputs :
            InfoValueChange(c, num, text)

SpecOverlay == Init /\ [][NextOverlay]_vars

(***************************************************************************)
(* Concurrent creation: two requests create level-1 concepts, the          *)
(* validation and the save of one interleaving with those of the other.    *)
(***************************************************************************)
NextConcurrent ==
    \/ \E t \in Txns, key \in Keys, kind \in KindInputs :
            nextId.concept <= MaxConceptsTx /\ ConceptL1AddValidate(t, key, kind)
    \/ \E t \in Txns : ConceptL1AddSave(t)

SpecConcurrent == Init /\ [][NextConcurrent]_vars

(***************************************************************************)
(* Edge attributes: edges between the two stored concepts get attributes,  *)
(* which are set again and edited; edges are deleted.                      *)
(***************************************************************************)
\* attribute keys and values submitted
AttrInputs == 1..2

NextAttr ==
    \/ nextId.edge <= MaxEdgesAttr /\ EdgeAdd(1, 1, 2, 1)
    \/ \E e \in DOMAIN edges : EdgeDelete(e)
    \/ \E e \in DOMAIN edges, key \in AttrInputs, value \in AttrInputs :
            nextId.attr <= MaxAttrs /\ AttrAdd(e, key, value)
    \/ \E a \in DOMAIN edgeAttrs, key \in AttrInputs, value \in AttrInputs :
            AttrChange(a, edgeAttrs[a].edge, key, value)

SpecAttr == InitVersion /\ [][NextAttr]_vars

(***************************************************************************)
(* Failed requests: requests are submitted whether or not the rows they    *)
(* name exist, their keys are free and their targets are referenced.       *)
(***************************************************************************)
NextFailure ==
    \/ \E key \in 1..MaxConceptsFail :
            nextId.concept <= MaxConceptsFail /\ ConceptL1Add(key, "O")
    \/ \E key \in 1..MaxConceptsFail, p \in 1..MaxConceptsFail :
            nextId.concept <= MaxConceptsFail /\ ConceptL2Add(key, "O", p)
    \/ \E c \in 1..MaxConceptsFail : ConceptDelete(c)
    \/ \E f \in 1..MaxConceptsFail, t \in 1..MaxConceptsFail :
            nextId.edge <= MaxEdgesFail /\ EdgeAdd(f, 1, t, 1)
    \/ \E c \in 1..MaxConceptsFail : FormulaAdd(c, 1)
    \/ \E c \in 1..MaxConceptsFail :
            nextId.blockFormula <= MaxBlockFormulasFail /\ BlockFormulaAdd(1, c)
    \/ \E b \in DOMAIN calcBlocks : AssemblyAdd(1, b, 1)
    \/ \E r \in DOMAIN relTypes : RelTypeDelete(r)

SpecFailure == InitDelete /\ [][NextFailure]_vars

(***************************************************************************)
(* Save paths: concepts are created and edited through the level-1 and the *)
(* level-2 screens with every kind and every stored concept as parent; the *)
(* keys are left alone.                                                    *)
(***************************************************************************)
NextSave ==
    \/ \E kind \in KindInputs :
            nextId.concept <= MaxConceptsSave /\ ConceptL1Add(nextId.concept, kind)
    \/ \E c \in DOMAIN concepts, kind \in KindInputs :
            ConceptL1Change(c, concepts[c].key, kind)
    \/ \E kind \in KindInputs, p \in DOMAIN concepts :
            nextId.concept <= MaxConceptsSave
                /\ ConceptL2Add(nextId.concept, kind, p)
    \/ \E c \in DOMAIN concepts, kind \in KindInputs, p \in DOMAIN concepts :
            ConceptL2Change(c, concepts[c].key, kind, p)

SpecSave == Init /\ [][NextSave]_vars

(***************************************************************************)
(* Kind-copy race: with two level-1 concepts stored, requests create       *)
(* children through the level-2 add view while the kind of a root is       *)
(* changed through the level-1 change view.                                *)
(***************************************************************************)
NextRace ==
    \/ \E t \in Txns, kind \in KindInputs, p \in DOMAIN concepts :
            nextId.concept <= MaxConceptsRace
                /\ ConceptL2AddValidate(t, nextId.concept, kind, p)
    \/ \E t \in Txns : ConceptL2AddSave(t)
    \/ \E c \in Level1Queryset, kind \in KindInputs :
            ConceptL1Change(c, concepts[c].key, kind)

SpecRace == InitVersion /\ [][NextRace]_vars

(***************************************************************************)
(* Referential integrity: every table holds a row that references the      *)
(* others; rows of every table are deleted and a few are created again,    *)
(* naming stored and deleted rows alike.                                   *)
(***************************************************************************)
InitRefs ==
    /\ concepts = Insert(Insert(Empty, 1, [key |-> 1, kind |-> "I", root_lv2 |-> NULL,
                                          is_active |-> TRUE, updated_at |-> 1]),
                         2, [key |-> 2, kind |-> "I", root_lv2 |-> 1,
                             is_active |-> TRUE, updated_at |-> 1])
    /\ relTypes = Insert(Empty, 1, [key |-> Describes, parent |-> NULL])
    /\ edges = Insert(Empty, 1, [from_concept |-> 2, relation_type |-> 1,
                                 to_concept |-> 1, weight |-> 1, updated_at |-> 1])
    /\ edgeAttrs = Insert(Empty, 1, [edge |-> 1, key |-> 1, value_text |-> 1])
    /\ formulas = Insert(Empty, 2, [expression |-> 1])
    /\ infoValues = Insert(Empty, 1, [value_num |-> 1, value_text |-> NULL])
    /\ calcModels = Insert(Empty, 1, [model_key |-> 1])
    /\ calcBlocks = Insert(Empty, 1, [block_key |-> 1])
    /\ assemblies = Insert(Empty, 1, [model |-> 1, block |-> 1, order_no |-> 1])
    /\ blockFormulas = Insert(Empty, 1, [block |-> 1, formula_concept |-> 2])
    /\ nextId = [concept |-> 3, relType |-> 2, edge |-> 2, attr |-> 2,
                 model |-> 2, block |-> 2, assembly |-> 2, blockFormula |-> 2]
    /\ clock = 1
    /\ txn = [t \in Txns |-> NoRequest]
    /\ last = Resp("none", NULL, "ok")

\* the rows created since InitRefs in the tables with an AutoField
CreatedRef ==
    nextId.concept + nextId.relType + nextId.edge + nextId.attr + nextId.model
        + nextId.block + nextId.assembly + nextId.blockFormula - 17

\* the primary keys a request of the specification can name
IdsRef == 1..2

NextRefs ==
    \/ \E c \in IdsRef : ConceptDelete(c)
    \/ \E r \in DOMAIN relTypes : RelTypeDelete(r)
    \/ \E e \in DOMAIN edges : EdgeDelete(e)
    \/ \E c \in DOMAIN formulas : FormulaDelete(c)
    \/ \E m \in DOMAIN calcModels : CalcModelDelete(m)
    \/ \E b \in DOMAIN calcBlocks : CalcBlockDelete(b)
    \/ \E a \in DOMAIN assemblies : AssemblyDelete(a)
    \/ \E f \in DOMAIN blockFormulas : BlockFormulaDelete(f)
    \/ CreatedRef < MaxCreatesRef /\ ConceptL1Add(nextId.concept, "I")
    \/ \E p \in IdsRef :
            CreatedRef < MaxCreatesRef /\ ConceptL2Add(nextId.concept, "I", p)
    \/ CreatedRef < MaxCreatesRef /\ RelTypeAdd(nextId.relType, NULL)
    \/ \E f \in IdsRef, r \in IdsRef, t \in IdsRef :
            CreatedRef < MaxCreatesRef /\ EdgeAdd(f, r, t, 1)
    \/ \E e \in IdsRef : CreatedRef < MaxCreatesRef /\ AttrAdd(e, 1, 1)
    \/ \E c \in IdsRef : FormulaAdd(c, 1)
    \/ \E c \in IdsRef : InfoValueAdd(c, 1, NULL)
    \/ CreatedRef < MaxCreatesRef /\ CalcModelAdd(nextId.model)
    \/ CreatedRef < MaxCreatesRef /\ CalcBlockAdd(nextId.block)
    \/ \E m \in IdsRef, b \in IdsRef :
            CreatedRef < MaxCreatesRef /\ AssemblyAdd(m, b, 1)
    \/ \E b \in IdsRef, c \in IdsRef :
            CreatedRef < MaxCreatesRef /\ BlockFormulaAdd(b, c)

SpecRefs == InitRefs /\ [][NextRefs]_vars

(***************************************************************************)
(* Properties of the concept hierarchy                                     *)
(***************************************************************************)
\* C1: in every reachable state every concept is a level-1 concept or the
\* child of a stored level-1 concept: c.root_lv2 is NULL or
\* c.root_lv2.root_lv2 is NULL.  No concept is its own parent and no
\* concept with children has a parent.
DepthAtMostTwo ==
    \A c \in DOMAIN concepts :
        \/ concepts[c].root_lv2 = NULL
        \/ /\ concepts[c].root_lv2 \in DOMAIN concepts
           /\ concepts[c].root_lv2 # c
           /\ concepts[concepts[c].root_lv2].root_lv2 = NULL

\* A child has just been reassigned from one root to another while a third
\* concept exists.
DepthWitness ==
    /\ last.op = "ConceptL2Change"
    /\ last.result = "ok"
    /\ Cardinality(DOMAIN concepts) = 3
    /\ Cardinality(Level2Queryset) >= 1

\* C2: in every reachable state a child carries the kind of its parent.
KindInherited ==
    \A c \in DOMAIN concepts :
        concepts[c].root_lv2 # NULL =>
            concepts[c].kind = concepts[concepts[c].root_lv2].kind

(***************************************************************************)
(* Properties of deleting a concept                                        *)
(***************************************************************************)
\* C4: the delete of a concept that a CalcBlockFormula row names, or that
\* is the parent of another concept, is refused with ProtectedReference and
\* no table changes.
ProtectedDeleteRefused ==
    [][ ( /\ last'.op = "ConceptDelete"
          /\ \/ \E k \in DOMAIN concepts : concepts[k].root_lv2 = last'.id
             \/ \E f \in DOMAIN blockFormulas :
                    blockFormulas[f].formula_concept = last'.id )
        => ( last'.result = "ProtectedReference" /\ UNCHANGED db ) ]_vars

\* The refused delete was of a concept with a child and a block formula,
\* which also has an edge and a formula that a delete would have taken.
ProtectedDeleteWitness ==
    /\ last.op = "ConceptDelete"
    /\ last.result = "ProtectedReference"
    /\ \E k \in DOMAIN concepts : concepts[k].root_lv2 = last.id
    /\ \E f \in DOMAIN blockFormulas : blockFormulas[f].formula_concept = last.id
    /\ \E e \in DOMAIN edges : edges[e].from_concept = last.id
    /\ last.id \in DOMAIN formulas

RECURSIVE RootOf(_, _)
RootOf(r, visited) ==
    IF relTypes[r].parent = NULL THEN r
    ELSE IF relTypes[r].parent \in visited \cup {r} THEN NULL
    ELSE IF relTypes[r].parent \notin DOMAIN relTypes THEN NULL
    ELSE RootOf(relTypes[r].parent, visited \cup {r})

\* C3: in every reachable state the parent walk of every relation type
\* ends at a type without parent, and that type is the same for all of
\* them: no cycle, no self-parent, no second root.
RelTypeSingleRoot ==
    \A r, s \in DOMAIN relTypes :
        /\ RootOf(r, {}) # NULL
        /\ RootOf(r, {}) = RootOf(s, {})

\* C8: the delete of a relation type that an edge uses, or that another
\* relation type has as parent, is refused with ProtectedReference and no
\* table changes; no delete of a relation type removes an edge or another
\* relation type.
RelTypeDeleteProtected ==
    [][ ( last'.op = "RelTypeDelete" )
        => ( /\ ( ( \/ \E e \in DOMAIN edges : edges[e].relation_type = last'.id
                    \/ \E k \in DOMAIN relTypes :
                            k # last'.id /\ relTypes[k].parent = last'.id )
                  => ( last'.result = "ProtectedReference" /\ UNCHANGED db ) )
             /\ edges' = edges
             /\ \A k \in DOMAIN relTypes \ {last'.id} :
                    k \in DOMAIN relTypes' /\ relTypes'[k] = relTypes[k] ) ]_vars

\* A refused delete of a type that an edge uses and that has no child, while
\* another type has a child.
RelTypeDeleteWitness ==
    /\ last.op = "RelTypeDelete"
    /\ last.result = "ProtectedReference"
    /\ \E e \in DOMAIN edges : edges[e].relation_type = last.id
    /\ ~\E k \in DOMAIN relTypes : relTypes[k].parent = last.id
    /\ \E k \in DOMAIN relTypes : relTypes[k].parent \notin {NULL, last.id}

\* The edges that join f to t with relation type r.
EdgesWithTriple(es, f, r, t) ==
    {e \in DOMAIN es : /\ es[e].from_concept = f
                       /\ es[e].relation_type = r
                       /\ es[e].to_concept = t}

\* C7: creating an edge between stored concepts with a stored relation type
\* always succeeds, also when edges with the same (from, relation_type, to)
\* exist; it adds one edge under a primary key no stored edge has, keeps
\* every stored edge, and so raises the number of edges with that triple by
\* exactly one.
EdgeAddAlwaysNew ==
    [][ ( last'.op = "EdgeAdd" )
        => ( /\ last'.result = "ok"
             /\ last'.id \notin DOMAIN edges
             /\ DOMAIN edges' = DOMAIN edges \cup {last'.id}
             /\ \A e \in DOMAIN edges : edges'[e] = edges[e]
             /\ LET n == edges'[last'.id]
                IN Cardinality(EdgesWithTriple(edges', n.from_concept,
                                   n.relation_type, n.to_concept))
                   = 1 + Cardinality(EdgesWithTriple(edges, n.from_concept,
                                   n.relation_type, n.to_concept)) ) ]_vars

\* Two edges with the same triple are stored after two creates and no
\* delete of an edge.
EdgeDuplicateWitness ==
    /\ last.op = "EdgeAdd"
    /\ last.result = "ok"
    /\ nextId.edge = 3
    /\ \E e1, e2 \in DOMAIN edges :
            /\ e1 # e2
            /\ edges[e1] = edges[e2]

(***************************************************************************)
(* Properties of resolve_model                                             *)
(***************************************************************************)
\* The formula concepts that block b carries.
ConceptsOfBlock(b) ==
    {blockFormulas[f].formula_concept :
        f \in {g \in DOMAIN blockFormulas : blockFormulas[g].block = b}}

\* plan lists the formula concepts of m's blocks block by block: every entry
\* can be attributed to an assembly row of m so that the order_no never
\* decreases along the plan, the entries of one row stand together and run
\* in strictly ascending concept key, and each row contributes exactly the
\* concepts of its block.
IsOrderedPlan(plan, m) ==
    \E row \in [1..Len(plan) -> AssembliesOf(m)] :
        /\ \A i, j \in 1..Len(plan) :
              i < j => /\ assemblies[row[i]].order_no <= assemblies[row[j]].order_no
                       /\ row[i] = row[j] =>
                              concepts[plan[i]].key < concepts[plan[j]].key
        /\ \A i, j, k \in 1..Len(plan) :
              (i < j /\ j < k /\ row[i] = row[k]) => row[j] = row[i]
        /\ \A a \in AssembliesOf(m) :
              {plan[i] : i \in {j \in 1..Len(plan) : row[j] = a}}
                  = ConceptsOfBlock(assemblies[a].block)

\* A successful resolve_model(m) returns the formula concepts ordered by the
\* block's order_no ascending and, within a block, by concept key ascending.
ResolveOrdered ==
    (last.op = "ResolveModel" /\ last.result = "ok")
        => IsOrderedPlan(last.plan, last.id)

\* Two successful calls of resolve_model(m) with no write in between return
\* the identical sequence.
ResolveRepeatable ==
    (/\ last.op = "ResolveModel" /\ last.result = "ok"
     /\ last'.op = "ResolveModel" /\ last'.result = "ok"
     /\ last'.id = last.id
     /\ db' = db)
        => last'.plan = last.plan

\* C9: resolve_model(m) returns the formula concepts of m's blocks ordered by
\* the block's order_no ascending and within a block by concept key
\* ascending, and two calls with no write in between return the identical
\* sequence in every stored state, also when two blocks of m carry the same
\* order_no.
ResolveOrderedAndDeterministic ==
    []ResolveOrdered /\ [][ResolveRepeatable]_vars

\* The CalcBlockFormula rows of m's blocks whose concept has no Formula row.
OrphanRows(m) ==
    {f \in DOMAIN blockFormulas :
        /\ blockFormulas[f].formula_concept \notin DOMAIN formulas
        /\ \E a \in DOMAIN assemblies :
              /\ assemblies[a].model = m
              /\ assemblies[a].block = blockFormulas[f].block}

\* C10: resolve_model(m) is all-or-nothing: when a CalcBlockFormula row of a
\* block of m references a concept without a Formula row the call fails with
\* OrphanReference and returns no plan entry; otherwise it succeeds and
\* every entry of the plan has a Formula row.
ResolveAllOrNothing ==
    (last.op = "ResolveModel" /\ last.id \in DOMAIN calcModels)
        => IF OrphanRows(last.id) # {}
           THEN last.result = "OrphanReference" /\ last.plan = <<>>
           ELSE /\ last.result = "ok"
                /\ \A i \in 1..Len(last.plan) : last.plan[i] \in DOMAIN formulas

\* A model was resolved whose blocks hold one formula concept with a Formula
\* row and one without: the call failed with OrphanReference although a
\* partial plan existed.
OrphanResolveWitness ==
    /\ last.op = "ResolveModel"
    /\ last.result = "OrphanReference"
    /\ last.plan = <<>>
    /\ \E f \in OrphanRows(last.id) : TRUE
    /\ \E f \in DOMAIN blockFormulas :
          /\ blockFormulas[f].formula_concept \in DOMAIN formulas
          /\ \E a \in AssembliesOf(last.id) :
                assemblies[a].block = blockFormulas[f].block

(***************************************************************************)
(* Properties of the change clock                                          *)
(***************************************************************************)
\* What resolve_model(m) and its caller read: the blocks of m with their
\* order_no, the formula concepts of those blocks and the 'describes' edges
\* of those concepts.
PlanInputs(m) ==
    << {<<assemblies[a].block, assemblies[a].order_no>> : a \in AssembliesOf(m)},
       {<<blockFormulas[f].block, blockFormulas[f].formula_concept>> :
            f \in {g \in DOMAIN blockFormulas :
                      \E a \in AssembliesOf(m) :
                          assemblies[a].block = blockFormulas[g].block}},
       {<<e, edges[e].to_concept, edges[e].weight>> : e \in DescribesEdgesOf(m)} >>

\* C11: structural_version(m) strictly increases with every step that adds,
\* removes or reorders a block, a block formula or a describing edge of m,
\* and is unchanged by every step that leaves those rows of m alone.
StructuralVersionSignals ==
    [][ \A m \in DOMAIN calcModels :
            IF PlanInputs(m)' # PlanInputs(m)
            THEN StructuralVersion(m)' > StructuralVersion(m)
            ELSE StructuralVersion(m)' = StructuralVersion(m) ]_vars

\* C12: every write to an existing row bumps its updated_at: an edge or a
\* concept that a successful request has changed carries an updated_at
\* strictly greater than before the request.
UpdateBumpsTimestamp ==
    [][ /\ \A e \in DOMAIN edges \cap DOMAIN edges' :
              edges'[e] # edges[e] => edges'[e].updated_at > edges[e].updated_at
        /\ \A c \in DOMAIN concepts \cap DOMAIN concepts' :
              concepts'[c] # concepts[c] =>
                  concepts'[c].updated_at > concepts[c].updated_at ]_vars

(***************************************************************************)
(* Properties of the assembly rows                                         *)
(***************************************************************************)
\* at most one assembly row per (model, block)
AssemblyPairUnique ==
    \A a1, a2 \in DOMAIN assemblies :
        (/\ assemblies[a1].model = assemblies[a2].model
         /\ assemblies[a1].block = assemblies[a2].block) => a1 = a2

\* An insert leaves every existing row as it was, succeeds only for a
\* (model, block) pair no row carries yet, and writes nothing when it is
\* refused.
AssemblyInsertChecked ==
    last'.op = "AssemblyAdd" =>
        /\ \A a \in DOMAIN assemblies :
              a \in DOMAIN assemblies' /\ assemblies'[a] = assemblies[a]
        /\ last'.result = "ok" =>
              \A a \in DOMAIN assemblies :
                  ~ (/\ assemblies[a].model = assemblies'[last'.id].model
                     /\ assemblies[a].block = assemblies'[last'.id].block)
        /\ last'.result # "ok" =>
              last'.result \in {"DuplicateKey", "NotFound"} /\ UNCHANGED db

\* C13: a second CalcModelAssembly row for a (model, block) pair that is
\* already present is refused with DuplicateKey and leaves the existing row
\* with its order_no unchanged; there is never more than one row per
\* (model, block).
AssemblyDuplicateRefused ==
    []AssemblyPairUnique /\ [][AssemblyInsertChecked]_vars

\* An insert for a pair that is present was refused with DuplicateKey.
AssemblyDuplicateWitness ==
    /\ last.op = "AssemblyAdd"
    /\ last.result = "DuplicateKey"
    /\ Cardinality(DOMAIN assemblies) >= 2

\* C19: no two CalcModelAssembly rows of one model carry the same order_no,
\* so the order_no of its rows orders the blocks of a model strictly.
NoOrderNoTies ==
    \A a1, a2 \in DOMAIN assemblies :
        (/\ assemblies[a1].model = assemblies[a2].model
         /\ assemblies[a1].order_no = assemblies[a2].order_no) => a1 = a2

(***************************************************************************)
(* Properties of the scalar overlays                                       *)
(***************************************************************************)
\* C14: set_formula is refused for a concept whose kind is not Information,
\* so every Formula row is attached to a concept of kind I.
FormulaOnlyOnInformation ==
    \A c \in DOMAIN formulas : concepts[c].kind = "I"

\* C15: set_value with neither value_num nor value_text is refused and
\* writes nothing, so every InfoValue row carries a value_num or a
\* value_text.
InfoValueHasValue ==
    \A c \in DOMAIN infoValues :
        infoValues[c].value_num # NULL \/ infoValues[c].value_text # NULL

(***************************************************************************)
(* Properties of concurrent concept creation                               *)
(***************************************************************************)
\* no two concepts carry the same key
ConceptKeyUnique ==
    \A c1, c2 \in DOMAIN concepts :
        concepts[c1].key = concepts[c2].key => c1 = c2

\* The save of a request whose key has been stored since its validation is
\* refused with DuplicateKey and writes nothing; every other save stores
\* the one new row.
ConceptSaveChecked ==
    \A t \in Txns :
        (txn[t] # NoRequest /\ txn'[t] = NoRequest) =>
            IF \E c \in DOMAIN concepts : concepts[c].key = txn[t].key
            THEN last'.result = "DuplicateKey" /\ UNCHANGED db
            ELSE /\ last'.result = "ok"
                 /\ DOMAIN concepts' = DOMAIN concepts \cup {last'.id}
                 /\ concepts'[last'.id].key = txn[t].key

\* C16: concept keys are unique in every reachable state, also when two
\* requests create a concept with the same key concurrently: whatever the
\* interleaving, the one that saves first commits, the later one fails with
\* DuplicateKey and exactly one concept carries the key.
ConceptKeyUniqueConcurrent ==
    []ConceptKeyUnique /\ [][ConceptSaveChecked]_vars

\* Both requests had validated the same key before either saved; the later
\* save was refused and one concept carries the key.
ConcurrentDuplicateWitness ==
    /\ last.op = "ConceptL1AddSave"
    /\ last.result = "DuplicateKey"
    /\ \A t \in Txns : txn[t] = NoRequest
    /\ Cardinality(DOMAIN concepts) = 1

(***************************************************************************)
(* Properties of the edge attributes                                       *)
(***************************************************************************)
\* at most one attribute row per (edge, key)
AttrPairUnique ==
    \A a1, a2 \in DOMAIN edgeAttrs :
        (/\ edgeAttrs[a1].edge = edgeAttrs[a2].edge
         /\ edgeAttrs[a1].key = edgeAttrs[a2].key) => a1 = a2

\* C17: EdgeAttribute set(edge, key, value) is an upsert: a set on a stored
\* edge never fails, a second set with the same (edge, key) overwrites the
\* value, and there is one row per (edge, key).
AttrSetIsUpsert ==
    /\ []AttrPairUnique
    /\ [][ (last'.op = "AttrAdd" /\ last'.result # "NotFound")
                => last'.result = "ok" ]_vars

(***************************************************************************)
(* Properties of failed requests                                           *)
(***************************************************************************)
\* the outcomes of a request that is refused
Failures ==
    {"DuplicateKey", "HierarchyViolation", "ValidationError", "NotFound",
     "ProtectedReference"}

\* C18: a request that fails validation has no partial effect: every step
\* that ends in a failure response leaves all the tables as they were.
FailureWritesNothing ==
    [][ last'.result \in Failures => UNCHANGED db ]_vars

\* The delete of a concept that has edges of its own was refused because
\* the concept is referenced, and the edges are still stored.
RefusedDeleteKeepsEdges ==
    /\ last.op = "ConceptDelete"
    /\ last.result = "ProtectedReference"
    /\ EdgesOfConcept(last.id) # {}
    /\ last.id \in DOMAIN formulas

(***************************************************************************)
(* Properties of the two save paths of a concept                           *)
(***************************************************************************)
\* C20: a save through the level-2 path with parent p stores p's kind,
\* whatever kind was submitted, on creation and when a child is moved to
\* another root; a save through the level-1 path stores parent = NULL.
SavePathsSetKindAndParent ==
    [][ /\ (last'.op \in {"ConceptL2Add", "ConceptL2Change"} /\ last'.result = "ok")
            => /\ concepts'[last'.id].root_lv2 \in DOMAIN concepts
               /\ concepts'[last'.id].kind
                      = concepts[concepts'[last'.id].root_lv2].kind
        /\ (last'.op \in {"ConceptL1Add", "ConceptL1Change"} /\ last'.result = "ok")
            => concepts'[last'.id].root_lv2 = NULL ]_vars

\* A child was saved through the level-2 change view under a root of kind
\* I while a root of kind O is stored as well, and carries kind I.
ChildReassignedWitness ==
    /\ last.op = "ConceptL2Change"
    /\ last.result = "ok"
    /\ concepts[last.id].kind = "I"
    /\ concepts[concepts[last.id].root_lv2].kind = "I"
    /\ \E r \in Level1Queryset : concepts[r].kind = "O"

(***************************************************************************)
(* Properties of the kind copy under concurrency                           *)
(***************************************************************************)
\* C21: the kind copy is atomic with the read of the parent: whatever write
\* to the parent's kind is interleaved with a child save, the child that
\* the save commits carries the kind its parent has in the committed
\* state.
KindCopyAtomic ==
    [][ (last'.op = "ConceptL2AddSave" /\ last'.result = "ok" /\ last' # last)
            => concepts'[last'.id].kind
                   = concepts'[concepts'[last'.id].root_lv2].kind ]_vars

(***************************************************************************)
(* Referential integrity                                                   *)
(***************************************************************************)
\* every foreign key of every row names a stored row
ReferencesExist ==
    /\ \A c \in DOMAIN concepts :
          concepts[c].root_lv2 # NULL => concepts[c].root_lv2 \in DOMAIN concepts
    /\ \A e \in DOMAIN edges :
          /\ edges[e].from_concept \in DOMAIN concepts
          /\ edges[e].to_concept \in DOMAIN concepts
          /\ edges[e].relation_type \in DOMAIN relTypes
    /\ \A a \in DOMAIN edgeAttrs : edgeAttrs[a].edge \in DOMAIN edges
    /\ DOMAIN formulas \subseteq DOMAIN concepts
    /\ DOMAIN infoValues \subseteq DOMAIN concepts
    /\ \A a \in DOMAIN assemblies :
          /\ assemblies[a].model \in DOMAIN calcModels
          /\ assemblies[a].block \in DOMAIN calcBlocks
    /\ \A f \in DOMAIN blockFormulas :
          /\ blockFormulas[f].block \in DOMAIN calcBlocks
          /\ blockFormulas[f].formula_concept \in DOMAIN concepts

\* the delete of a model or a block leaves the concepts and their
\* overlays alone
CalcDeleteKeepsConcepts ==
    (last'.op \in {"CalcModelDelete", "CalcBlockDelete"} /\ last' # last)
        => UNCHANGED <<concepts, formulas, infoValues, edges, edgeAttrs, relTypes>>

\* C22: referential integrity holds in every reachable state: every foreign
\* key of an Edge, EdgeAttribute, Formula, InfoValue, CalcModelAssembly and
\* CalcBlockFormula row names a stored row; deleting a CalcModel or a
\* CalcBlock removes its join rows and no Concept.
ReferentialIntegrity ==
    []ReferencesExist /\ [][CalcDeleteKeepsConcepts]_vars

\* The stored block was deleted: its assembly row and its block formula
\* went with it, the formula concept and its Formula are still stored.
BlockDeleteWitness ==
    /\ last.op = "CalcBlockDelete"
    /\ last.result = "ok"
    /\ last.id = 1
    /\ assemblies = Empty
    /\ blockFormulas = Empty
    /\ 2 \in DOMAIN concepts
    /\ 2 \in DOMAIN formulas
    /\ DOMAIN edges # {}

====
